---- MODULE Spec2Model ----
(***************************************************************************)
(* fife-rpg: the component / system / action registration layer            *)
(* (components/base.py, systems/base.py, actions/look.py) and the mouse    *)
(* listener of the game scene (game_scene.py).                             *)
(*                                                                         *)
(* Python values are modelled by strings: PyTrue, PyFalse and None are the *)
(* three values a register call can return, Unset marks an attribute that  *)
(* is missing from a class's own __dict__ (the lookup then continues in    *)
(* the parent class), "" is the empty (falsy) string.                      *)
(***************************************************************************)
EXTENDS Integers, Sequences, FiniteSets, TLC

VARIABLES
    registry,   \* the three manager tables: kind -> name -> registered class
    own,        \* class -> the _Base__registered_as entry of its own __dict__
    stack,      \* the frames of the running (nested) register calls
    calls,      \* number of top-level register calls made so far
    last,       \* the latest top-level register call and what it returned
    entity,     \* the entity dictionary handed to setup
    setupLast,  \* the latest setup call: arguments, entity before, outcome
    checkLast,  \* the latest check_target call: entity and outcome
    look,       \* the LookAction instance under construction / execution
    events,     \* what the running LookAction has emitted and triggered
    is_outlined,    \* GameSceneListener.is_outlined
    gamecontroller, \* GameSceneListener.gamecontroller (None or bound)
    current_map,    \* controller.application.current_map (None or a map)
    outline_ignore, \* SimpleOutliner.outline_ignore
    outlined,       \* the instances the renderer currently outlines
    lastEvent       \* the latest mouseMoved event and the state it met

regVars   == <<registry, own, stack, calls, last>>
setupVars == <<entity, setupLast>>
lookVars  == <<checkLast, look, events>>
sceneVars == <<is_outlined, gamecontroller, current_map, outline_ignore,
               outlined, lastEvent>>
vars      == <<registry, own, stack, calls, last, entity, setupLast,
               checkLast, look, events, is_outlined, gamecontroller,
               current_map, outline_ignore, outlined, lastEvent>>

(***************************************************************************)
(* Python values                                                           *)
(***************************************************************************)
None      == "<None>"
Unset     == "<unset>"
PyTrue    == "True"
PyFalse   == "False"
Running   == "<running>"
NoDefault == "<required>"

TypeError          == "TypeError"
AttributeError     == "AttributeError"
NotRegisteredError == "NotRegisteredError"

\* bool(v) of a name-or-None value: None and "" are falsy
Truthy(v) == v # None /\ v # ""

(***************************************************************************)
(* Bounds                                                                  *)
(***************************************************************************)
MaxCalls == 3
MaxSetupCalls == 2
MaxLookCalls == 2
MaxCommands == 2

(***************************************************************************)
(* The classes.  T and U declare each other the way look.py:30 declares    *)
(* its dependency (a public `dependencies` attribute); C is a subclass of  *)
(* T; the systems S and R name each other, and R names Q, also in the      *)
(* attribute the register method really reads (_Base__dependencies).       *)
(* Description, S, R and LookAction override register with a default name  *)
(* as look.py:77 does; T, U, C and Q inherit Base.register(cls, name).     *)
(***************************************************************************)
ComponentTypes == {"Description", "T", "U", "C"}
SystemTypes    == {"S", "R", "Q"}
ActionTypes    == {"LookAction"}
Types          == ComponentTypes \cup SystemTypes \cup ActionTypes
Kinds          == {"component", "system", "action"}

Kind(t) ==
    IF t \in ComponentTypes THEN "component"
    ELSE IF t \in SystemTypes THEN "system" ELSE "action"

\* the parent class; "Base" is the Base class of the type's kind
Parent(t) == IF t = "C" THEN "T" ELSE "Base"

\* the `dependencies` attribute of the class's own __dict__
OwnDependencies(t) ==
    CASE t = "LookAction" -> <<"Description">>
      [] t = "T" -> <<"U">>
      [] t = "U" -> <<"T">>
      [] t = "S" -> <<"R">>
      [] t = "R" -> <<"S", "Q">>
      [] OTHER -> Unset

\* the `_Base__dependencies` attribute of the class's own __dict__
OwnBaseDependencies(t) ==
    CASE t = "S" -> <<"R">>
      [] t = "R" -> <<"S", "Q">>
      [] OTHER -> Unset

\* cls.dependencies, resolved along the parent chain
RECURSIVE dependencies(_)
dependencies(t) ==
    IF t = "Base" THEN <<>>
    ELSE IF OwnDependencies(t) # Unset THEN OwnDependencies(t)
    ELSE dependencies(Parent(t))

\* cls.__dependencies inside class Base, that is cls._Base__dependencies
RECURSIVE cls__dependencies(_)
cls__dependencies(t) ==
    IF t = "Base" THEN <<>>
    ELSE IF OwnBaseDependencies(t) # Unset THEN OwnBaseDependencies(t)
    ELSE cls__dependencies(Parent(t))

\* the default of the name parameter of the class's register ("Look" for
\* LookAction); NoDefault when the class inherits Base.register(cls, name)
DefaultName(t) ==
    CASE t = "LookAction" -> "Look"
      [] t = "Description" -> "Description"
      [] t = "S" -> "S"
      [] t = "R" -> "R"
      [] OTHER -> NoDefault

Names == {"", "a", "Description", "S", "R", "Look"}

\* the names a top-level caller passes to t.register
CallNames(t) ==
    {"", "a"} \cup (IF DefaultName(t) = NoDefault THEN {} ELSE {DefaultName(t)})
              \cup (IF t = "S" THEN {"R"} ELSE {})

(***************************************************************************)
(* registered_as: the ClassProperty reads cls._Base__registered_as, found  *)
(* in the class's own __dict__ or else in its parent's, down to Base's     *)
(* None.                                                                   *)
(***************************************************************************)
RECURSIVE registered_as(_, _)
registered_as(o, t) ==
    IF t = "Base" THEN None
    ELSE IF o[t] # Unset THEN o[t]
    ELSE registered_as(o, Parent(t))

(***************************************************************************)
(* The managers: register_component / register_system / register_action   *)
(* bind a free name and raise AlreadyRegisteredError on a bound one.       *)
(***************************************************************************)
Manager_register(reg, kind, name, cls) ==
    IF reg[kind][name] # None
    THEN [raised |-> TRUE, registry |-> reg]
    ELSE [raised |-> FALSE, registry |-> [reg EXCEPT ![kind][name] = cls]]

(***************************************************************************)
(* Base.register as a machine over m = [registry, own, stack, ret].        *)
(* A frame is [cls, name, pc, i]: pc "try" is about to run lines 61-62,    *)
(* pc "for" is at element i of the loop of lines 63-65.                    *)
(***************************************************************************)
Top(s) == s[Len(s)]
Pop(s) == SubSeq(s, 1, Len(s) - 1)
Frame(cls, name) == [cls |-> cls, name |-> name, pc |-> "try", i |-> 0]

\* LookAction.register calls super().register(name) and drops its result
LookAction_register(v) == None

\* a register override that passes the result of Base.register on
Override_register(v) == v

\* what the caller of the outermost register receives
Result(cls, v) ==
    IF cls = "LookAction" THEN LookAction_register(v) ELSE Override_register(v)

\* leave the top frame with value v; a nested call's value is discarded by
\* its caller (line 65), the outermost value goes to the caller
Return(m, v) ==
    [m EXCEPT !.stack = Pop(m.stack),
              !.ret = IF Len(m.stack) = 1 THEN Result(Top(m.stack).cls, v)
                      ELSE m.ret]

\* register_try with the class marked before the manager is asked
register_try_mark_first(m) ==
    LET f == Top(m.stack)
        r == Manager_register(m.registry, Kind(f.cls), f.name, f.cls)
        marked == [m EXCEPT !.own[f.cls] = f.name]
    IN  IF r.raised
        THEN Return(marked, PyFalse)
        ELSE [marked EXCEPT !.registry = r.registry,
                            !.stack[Len(m.stack)] = [f EXCEPT !.pc = "for", !.i = 1]]

\* register_try with the class left unmarked
register_try_unmarked(m) ==
    LET f == Top(m.stack)
        r == Manager_register(m.registry, Kind(f.cls), f.name, f.cls)
    IN  IF r.raised
        THEN Return(m, PyFalse)
        ELSE [m EXCEPT !.registry = r.registry,
                       !.stack[Len(m.stack)] = [f EXCEPT !.pc = "for", !.i = 1]]

\* lines 60-62 and 67-69: bind the name, then record it on the class
register_try(m) ==
    LET f == Top(m.stack)
        r == Manager_register(m.registry, Kind(f.cls), f.name, f.cls)
    IN  IF r.raised
        THEN Return(m, PyFalse)
        ELSE [m EXCEPT !.registry = r.registry,
                       !.own[f.cls] = f.name,
                       !.stack[Len(m.stack)] = [f EXCEPT !.pc = "for", !.i = 1]]

\* dependency.register() on a class whose register demands a name: the
\* TypeError is not caught by any frame and ends the outermost call
Raise(m, error) == [m EXCEPT !.stack = <<>>, !.ret = error]

\* lines 63-66: one turn of the loop over deps, or return True after it
register_for(m, deps) ==
    LET f == Top(m.stack) IN
    IF f.i > Len(deps)
    THEN Return(m, PyTrue)
    ELSE LET d   == deps[f.i]
             adv == [m EXCEPT !.stack[Len(m.stack)].i = f.i + 1]
         IN  IF ~Truthy(registered_as(m.own, d))
             THEN IF DefaultName(d) = NoDefault
                  THEN Raise(m, TypeError)
                  ELSE [adv EXCEPT !.stack =
                            Append(adv.stack, Frame(d, DefaultName(d)))]
             ELSE adv

\* one step of the register call on top of the stack
register(m, deps) ==
    IF Top(m.stack).pc = "try" THEN register_try(m) ELSE register_for(m, deps)

Machine == [registry |-> registry, own |-> own, stack |-> stack, ret |-> last.ret]

Install(m) ==
    /\ registry' = m.registry
    /\ own' = m.own
    /\ stack' = m.stack
    /\ last' = [last EXCEPT !.ret = m.ret]

(***************************************************************************)
(* Actions of the registration layer                                       *)
(***************************************************************************)
\* a caller invokes t.register(name) while no register call is running
Call(t, name, bound) ==
    /\ stack = <<>>
    /\ calls < bound
    /\ calls' = calls + 1
    /\ stack' = <<Frame(t, name)>>
    /\ last' = [cls |-> t, name |-> name, ret |-> Running,
                registry |-> registry, own |-> own]
    /\ UNCHANGED <<registry, own>>

RegisterCall ==
    \E t \in Types : \E name \in CallNames(t) : Call(t, name, MaxCalls)

\* components/base.py Base.register
ComponentRegister ==
    /\ stack # <<>>
    /\ Kind(Top(stack).cls) = "component"
    /\ Install(register(Machine, cls__dependencies(Top(stack).cls)))
    /\ UNCHANGED calls

\* systems/base.py Base.register
SystemRegister ==
    /\ stack # <<>>
    /\ Kind(Top(stack).cls) = "system"
    /\ Install(register(Machine, cls__dependencies(Top(stack).cls)))
    /\ UNCHANGED calls

\* actions/base.py Base.register: binds the name, then registers every
\* unregistered entry of the declared dependency list
ActionRegister ==
    /\ stack # <<>>
    /\ Kind(Top(stack).cls) = "action"
    /\ Install(register(Machine, dependencies(Top(stack).cls)))
    /\ UNCHANGED calls

NoCall == [cls |-> None, name |-> None, ret |-> None,
           registry |-> [k \in Kinds |-> [n \in Names |-> None]],
           own |-> [t \in Types |-> Unset]]

RegInit ==
    /\ registry = [k \in Kinds |-> [n \in Names |-> None]]
    /\ own = [t \in Types |-> Unset]
    /\ stack = <<>>
    /\ calls = 0
    /\ last = NoCall

NoSetup == [cls |-> None, data |-> <<>>, before |-> <<>>,
            own |-> [t \in Types |-> Unset], raised |-> None]
NoCheck == [entity |-> <<>>, own |-> [t \in Types |-> Unset], result |-> None]
NoLook  == [target |-> <<>>, commands |-> <<>>, pc |-> "none", i |-> 0,
            used |-> None]
NoEvent == [point |-> None, is_outlined |-> FALSE, gamecontroller |-> None,
            current_map |-> None, before |-> {}]

IdleRest ==
    /\ entity = <<>>
    /\ setupLast = NoSetup
    /\ checkLast = NoCheck
    /\ look = NoLook
    /\ events = <<>>
    /\ is_outlined = FALSE
    /\ gamecontroller = None
    /\ current_map = None
    /\ outline_ignore = {}
    /\ outlined = {}
    /\ lastEvent = NoEvent

Init == RegInit /\ IdleRest

Next ==
    \/ RegisterCall /\ UNCHANGED <<setupVars, lookVars, sceneVars>>
    \/ ComponentRegister /\ UNCHANGED <<setupVars, lookVars, sceneVars>>
    \/ SystemRegister /\ UNCHANGED <<setupVars, lookVars, sceneVars>>
    \/ ActionRegister /\ UNCHANGED <<setupVars, lookVars, sceneVars>>

Spec == Init /\ [][Next]_vars

(***************************************************************************)
(* Base.setup (components/base.py).  An entity dictionary is a function    *)
(* from component names to data records; {} is the empty record.           *)
(***************************************************************************)
EmptyRecord == <<>>
DoorRecord  == [view_name |-> "door", desc |-> "old"]
KeyRecord   == [view_name |-> "key", desc |-> "rusty"]

\* every dictionary with keys among K and values among V
Dicts(K, V) == UNION {[D -> V] : D \in SUBSET K}

EntityDicts == Dicts({"a", "Description"}, {EmptyRecord, DoorRecord})
DataDicts   == {EmptyRecord, DoorRecord}

\* lines 84-88; the outcome is the exception raised (or None) and the
\* entity dictionary, which setup changes in place
setup(o, cls, data, ent) ==
    IF ~Truthy(registered_as(o, cls))
    THEN [raised |-> NotRegisteredError, entity |-> ent]
    ELSE IF registered_as(o, cls) \notin DOMAIN ent
    THEN [raised |-> None,
          entity |-> [k \in DOMAIN ent \cup {registered_as(o, cls)} |->
                        IF k \in DOMAIN ent THEN ent[k] ELSE EmptyRecord]]
    ELSE [raised |-> None, entity |-> ent]

\* a setup call on the current entity dictionary
Setup(cls, data) ==
    /\ stack = <<>>
    /\ entity' = setup(own, cls, data, entity).entity
    /\ setupLast' = [cls |-> cls, data |-> data, before |-> entity,
                     own |-> own,
                     raised |-> setup(own, cls, data, entity).raised]

SetupCall == \E cls \in ComponentTypes : \E data \in DataDicts : Setup(cls, data)

\* the caller starts over with another entity dictionary
NewEntity ==
    \E e \in EntityDicts :
        /\ stack = <<>>
        /\ e # entity
        /\ entity' = e
        /\ setupLast' = NoSetup

ComponentCall ==
    \E t \in ComponentTypes : \E name \in CallNames(t) :
        Call(t, name, MaxSetupCalls)

SetupNext ==
    \/ ComponentCall /\ UNCHANGED <<setupVars, lookVars, sceneVars>>
    \/ ComponentRegister /\ UNCHANGED <<setupVars, lookVars, sceneVars>>
    \/ SetupCall /\ UNCHANGED <<regVars, lookVars, sceneVars>>
    \/ NewEntity /\ UNCHANGED <<regVars, lookVars, sceneVars>>

SetupSpec == Init /\ [][SetupNext]_vars

(***************************************************************************)
(* LookAction (actions/look.py).  A world entity is a function from the    *)
(* names of the components it carries to their data; getattr(entity, name) *)
(* is the engine's accessor for that component, true exactly when the      *)
(* entity carries it.                                                      *)
(***************************************************************************)
WorldEntities == Dicts({"a", "Description"}, {DoorRecord, KeyRecord})

\* getattr(entity, name): the accessor, which is true exactly when the
\* entity carries the component (data is then its record); a name that is
\* no string raises TypeError
getattr(ent, name) ==
    IF name = None
    THEN [raised |-> TypeError, carried |-> FALSE, data |-> <<>>]
    ELSE IF name \in DOMAIN ent
    THEN [raised |-> None, carried |-> TRUE, data |-> ent[name]]
    ELSE [raised |-> None, carried |-> FALSE, data |-> <<>>]

\* lines 71-74: the value returned, or the exception getattr raises
check_target(o, ent) ==
    LET description == getattr(ent, registered_as(o, "Description")) IN
    IF description.raised # None THEN description.raised
    ELSE IF description.carried THEN PyTrue ELSE PyFalse

CheckTarget ==
    \E e \in WorldEntities :
        /\ stack = <<>>
        /\ checkLast' = [entity |-> e, own |-> own,
                         result |-> check_target(own, e)]

LookCall ==
    \E t \in {"Description", "LookAction"} : \E name \in CallNames(t) :
        Call(t, name, MaxLookCalls)

CheckNext ==
    \/ LookCall /\ UNCHANGED <<setupVars, lookVars, sceneVars>>
    \/ ComponentRegister /\ UNCHANGED <<setupVars, lookVars, sceneVars>>
    \/ ActionRegister /\ UNCHANGED <<setupVars, lookVars, sceneVars>>
    \/ CheckTarget /\ UNCHANGED <<regVars, setupVars, look, events, sceneVars>>

CheckSpec == Init /\ [][CheckNext]_vars

(***************************************************************************)
(* LookAction.execute.  An action instance is [target, commands, pc, i]:   *)
(* pc "new" after the constructor, "Base.execute" while the inherited      *)
(* execute is at command i, "done" after it, or the exception raised.      *)
(***************************************************************************)
Commands     == {"open", "close"}
CommandLists == UNION {[1..n -> Commands] : n \in 0..MaxCommands}

\* print "You see %s. \n%s" % (description.view_name, description.desc)
Message(description) ==
    [kind |-> "print", view_name |-> description.view_name,
     desc |-> description.desc]

\* the controller runs the follow-up command
Triggered(command) ==
    [kind |-> "command", view_name |-> command, desc |-> command]

\* LookAction_execute without the print of line 48
LookAction_execute_silent(o, lk, ev) ==
    LET description == getattr(lk.target, registered_as(o, "Description")) IN
    IF description.raised # None
    THEN [look |-> [lk EXCEPT !.pc = description.raised], events |-> ev]
    ELSE IF ~description.carried
    THEN [look |-> [lk EXCEPT !.pc = AttributeError], events |-> ev]
    ELSE [look |-> [lk EXCEPT !.pc = "Base.execute", !.i = 1], events |-> ev]

\* lines 47-48, up to the call of Base.execute in line 49; reading
\* view_name of an accessor without data raises AttributeError
LookAction_execute(o, lk, ev) ==
    LET description == getattr(lk.target, registered_as(o, "Description")) IN
    IF description.raised # None
    THEN [look |-> [lk EXCEPT !.pc = description.raised], events |-> ev]
    ELSE IF ~description.carried
    THEN [look |-> [lk EXCEPT !.pc = AttributeError], events |-> ev]
    ELSE [look |-> [lk EXCEPT !.pc = "Base.execute", !.i = 1],
          events |-> Append(ev, Message(description.data))]

\* actions/base.py Base.execute: the follow-up commands, one after another
Base_execute(lk, ev) ==
    IF lk.i > Len(lk.commands)
    THEN [look |-> [lk EXCEPT !.pc = "done"], events |-> ev]
    ELSE [look |-> [lk EXCEPT !.i = lk.i + 1],
          events |-> Append(ev, Triggered(lk.commands[lk.i]))]

\* LookAction(controller, agent, target, commands)
NewLookAction ==
    \E target \in WorldEntities : \E commands \in CommandLists :
        /\ stack = <<>>
        /\ look.pc \notin {"new", "Base.execute"}
        /\ look' = [target |-> target, commands |-> commands,
                    pc |-> "new", i |-> 0, used |-> None]
        /\ events' = <<>>

LookExecute ==
    /\ stack = <<>>
    /\ look.pc = "new"
    /\ look' = [LookAction_execute(own, look, events).look
                    EXCEPT !.used = registered_as(own, "Description")]
    /\ events' = LookAction_execute(own, look, events).events

BaseExecute ==
    /\ look.pc = "Base.execute"
    /\ look' = Base_execute(look, events).look
    /\ events' = Base_execute(look, events).events

LookNext ==
    \/ LookCall /\ look.pc # "Base.execute"
                /\ UNCHANGED <<setupVars, lookVars, sceneVars>>
    \/ ComponentRegister /\ UNCHANGED <<setupVars, lookVars, sceneVars>>
    \/ ActionRegister /\ UNCHANGED <<setupVars, lookVars, sceneVars>>
    \/ NewLookAction /\ UNCHANGED <<regVars, setupVars, checkLast, sceneVars>>
    \/ LookExecute /\ UNCHANGED <<regVars, setupVars, checkLast, sceneVars>>
    \/ BaseExecute /\ UNCHANGED <<regVars, setupVars, checkLast, sceneVars>>

LookSpec == Init /\ [][LookNext]_vars

(***************************************************************************)
(* The game scene (game_scene.py): SimpleOutliner and the mouseMoved       *)
(* handler of GameSceneListener.  The engine is reached through three      *)
(* calls: the instances at a screen point on a layer, removeAllOutlines    *)
(* and addOutlined.                                                        *)
(***************************************************************************)
Points    == {"p1", "p2", "p3"}
Instances == {"i1", "i2", "i3", "tile"}

\* instance.getId()
getId(instance) ==
    CASE instance = "i1" -> "player"
      [] instance = "i2" -> "npc"
      [] instance = "i3" -> "npc"
      [] OTHER -> "floor"

Identifiers == {"player", "npc"}

\* game_map.get_instances_at(point, game_map.get_layer(layer))
get_instances_at(point, layer) ==
    CASE layer = "actors" /\ point = "p1" -> {"i1", "i2"}
      [] layer = "actors" /\ point = "p2" -> {"i3"}
      [] layer = "ground" /\ point \in {"p1", "p3"} -> {"tile"}
      [] OTHER -> {}

\* SimpleOutliner.__init__: outline_data or (255, 255, 255, 1)
outline_data == <<255, 255, 255, 1>>

\* SimpleOutliner.get_data: None for an ignored identifier, else the data
get_data(ignore, identifier) ==
    IF identifier \in ignore
    THEN [none |-> TRUE, data |-> <<>>]
    ELSE [none |-> FALSE, data |-> outline_data]

\* mouseMoved without the call of removeAllOutlines
mouseMoved_keep(outl, point) ==
    IF is_outlined /\ gamecontroller # None /\ current_map # None
    THEN outl \cup {instance \in get_instances_at(point, "actors") :
                        ~get_data(outline_ignore, getId(instance)).none}
    ELSE outl

\* GameSceneListener.mouseMoved: the renderer's outlines after the event
mouseMoved(outl, point) ==
    IF is_outlined
    THEN IF gamecontroller = None
         THEN outl
         ELSE IF current_map # None
              THEN {instance \in get_instances_at(point, "actors") :
                        ~get_data(outline_ignore, getId(instance)).none}
              ELSE outl
    ELSE outl

MouseMoved ==
    \E point \in Points :
        /\ outlined' = mouseMoved(outlined, point)
        /\ lastEvent' = [point |-> point, is_outlined |-> is_outlined,
                         gamecontroller |-> gamecontroller,
                         current_map |-> current_map, before |-> outlined]
        /\ UNCHANGED <<is_outlined, gamecontroller, current_map, outline_ignore>>

\* GameSceneController.on_activate binds the listener to the controller
on_activate ==
    /\ gamecontroller = None
    /\ gamecontroller' = "controller"
    /\ UNCHANGED <<is_outlined, current_map, outline_ignore, outlined, lastEvent>>

\* the game switches outline drawing on or off
SetOutlined ==
    /\ is_outlined' = ~is_outlined
    /\ UNCHANGED <<gamecontroller, current_map, outline_ignore, outlined, lastEvent>>

\* the application loads or drops its current map
SwitchMap ==
    /\ current_map' = IF current_map = None THEN "map" ELSE None
    /\ UNCHANGED <<is_outlined, gamecontroller, outline_ignore, outlined, lastEvent>>

SceneInit ==
    /\ RegInit
    /\ entity = <<>>
    /\ setupLast = NoSetup
    /\ checkLast = NoCheck
    /\ look = NoLook
    /\ events = <<>>
    /\ is_outlined = FALSE
    /\ gamecontroller \in {None, "controller"}
    /\ current_map = None
    /\ outline_ignore \in SUBSET Identifiers
    /\ outlined = {}
    /\ lastEvent = NoEvent

SceneNext ==
    \/ MouseMoved /\ UNCHANGED <<regVars, setupVars, lookVars>>
    \/ on_activate /\ UNCHANGED <<regVars, setupVars, lookVars>>
    \/ SetOutlined /\ UNCHANGED <<regVars, setupVars, lookVars>>
    \/ SwitchMap /\ UNCHANGED <<regVars, setupVars, lookVars>>

SceneSpec == SceneInit /\ [][SceneNext]_vars

(***************************************************************************)
(* Properties of the registration layer (specification Spec)               *)
(***************************************************************************)
Range(seq) == {seq[k] : k \in DOMAIN seq}

\* the latest top-level call has returned
Returned == stack = <<>> /\ last.cls # None

\* the latest call asked a component or system class for a bound name
DuplicateCall ==
    /\ Returned
    /\ last.cls \in ComponentTypes \cup SystemTypes
    /\ last.registry[Kind(last.cls)][last.name] # None

\* C1: once a name is bound in a component or system registry, a later
\* register call of any class of that registry for that name returns False
\* (it does not raise) and leaves the registry and every class's
\* registered_as as they were.
C1_DuplicateNameRejected ==
    DuplicateCall =>
        /\ last.ret = PyFalse
        /\ registry = last.registry
        /\ \A t \in Types : registered_as(own, t) = registered_as(last.own, t)

\* a class other than the one holding the name was refused
C1_Witness ==
    /\ DuplicateCall
    /\ last.registry[Kind(last.cls)][last.name] # last.cls
    /\ last.ret = PyFalse

\* C2: a registered_as that was set before the latest call still has the
\* same value, and no two classes of one registry share a registered_as.
C2_RegisteredAsImmutableUnique ==
    stack = <<>> =>
    /\ \A t \in Types :
          registered_as(last.own, t) # None =>
              registered_as(own, t) = registered_as(last.own, t)
    /\ \A t, u \in Types :
          (t # u /\ Kind(t) = Kind(u) /\ registered_as(own, t) # None) =>
              registered_as(own, t) # registered_as(own, u)

\* t and u list each other as dependencies
Mutual(t, u) == u \in Range(dependencies(t)) /\ t \in Range(dependencies(u))

\* the latest call is on a class of a dependency cycle of two classes,
\* neither of which was registered when the call was made
CyclicCall ==
    /\ last.cls # None
    /\ \E u \in Types :
          /\ Mutual(last.cls, u)
          /\ registered_as(last.own, last.cls) = None
          /\ registered_as(last.own, u) = None

\* C3 as claimed: a register call on such a class never returns.
C3_CyclicRegisterNeverReturns == CyclicCall => stack # <<>>

\* the dependency list the register call of class t walks
WalkedDependencies(t) ==
    IF Kind(t) = "action" THEN dependencies(t) ELSE cls__dependencies(t)

FreeNames ==
    Cardinality({p \in Kinds \X Names : registry[p[1]][p[2]] = None})

FrameWeight(f) ==
    IF f.pc = "try" THEN 1
    ELSE 2 * (Len(WalkedDependencies(f.cls)) + 2 - f.i)

RECURSIVE StackWeight(_)
StackWeight(s) ==
    IF s = <<>> THEN 0 ELSE FrameWeight(s[1]) + StackWeight(Tail(s))

\* a natural number that every step of a running register call decreases
Measure == (2 * Cardinality(Types) + 2) * FreeNames + StackWeight(stack)

\* C3 as amended: a register call on a class of a two-class dependency
\* cycle ends.  The chain of nested calls is never more than three deep
\* (one deep for the component classes, whose declared list is not
\* walked), every step of a running call decreases a natural-number
\* measure, and the call returns True when its name was free and False
\* otherwise, unless a dependency without a default name made it raise
\* TypeError.
C3_CyclicRegisterReturns ==
    /\ [](CyclicCall =>
            /\ Len(stack) <= 3
            /\ (last.cls \in ComponentTypes => Len(stack) <= 1)
            /\ (stack = <<>> =>
                  \/ last.ret = TypeError
                  \/ last.ret = IF last.registry[Kind(last.cls)][last.name] = None
                                THEN PyTrue ELSE PyFalse))
    /\ [][stack # <<>> => (Measure' < Measure /\ Measure' >= 0)]_vars

\* such a call has returned after a nested call was made for the other
\* class, which found the first class registered
C3_Witness ==
    /\ CyclicCall
    /\ stack = <<>>
    /\ last.ret = PyTrue
    /\ \E u \in Types :
          /\ Mutual(last.cls, u)
          /\ registered_as(own, u) = DefaultName(u)

\* C4: when register returns True, every class of the declared dependency
\* list is registered (its registered_as is set and the registry holds it
\* under that name), one that was unregistered before under its default
\* name.
C4_DependenciesRegistered ==
    (Returned /\ last.ret = PyTrue) =>
        \A d \in Range(dependencies(last.cls)) :
            /\ registered_as(own, d) # None
            /\ registry[Kind(d)][registered_as(own, d)] = d
            /\ (registered_as(last.own, d) = None =>
                    registered_as(own, d) = DefaultName(d))

\* C7: LookAction.register returns True when this call bound the name and
\* False when the name was taken, and nothing else.
C7_LookRegisterReturnsFlag ==
    (Returned /\ last.cls = "LookAction") =>
        /\ last.ret \in {PyTrue, PyFalse}
        /\ (last.ret = PyTrue <=>
                last.registry["action"][last.name] = None)

(***************************************************************************)
(* Properties of setup (specification SetupSpec)                           *)
(***************************************************************************)
\* C5: setup on a component class that was never itself registered fails
\* with NotRegisteredError and leaves the entity as it was, whatever other
\* classes (its parent included) are registered; setup on a class that was
\* registered, under any name, does not fail with NotRegisteredError.
C5_SetupFailsIffUnregistered ==
    setupLast.cls # None =>
        IF setupLast.own[setupLast.cls] = Unset
        THEN setupLast.raised = NotRegisteredError /\ entity = setupLast.before
        ELSE setupLast.raised # NotRegisteredError

\* C6: setup on a registered component class does not fail, keeps a record
\* already present under the class's registered name, inserts an empty
\* record when there is none, leaves every other key alone, and a second
\* setup with any data changes nothing more.
C6_SetupIdempotent ==
    (setupLast.cls # None /\ setupLast.own[setupLast.cls] # Unset) =>
        LET name == registered_as(setupLast.own, setupLast.cls) IN
        /\ setupLast.raised = None
        /\ DOMAIN entity = DOMAIN setupLast.before \cup {name}
        /\ \A k \in DOMAIN setupLast.before : entity[k] = setupLast.before[k]
        /\ (name \notin DOMAIN setupLast.before => entity[name] = EmptyRecord)
        /\ \A data \in DataDicts :
              setup(setupLast.own, setupLast.cls, data, entity).entity = entity

(***************************************************************************)
(* Properties of LookAction (specifications CheckSpec and LookSpec)        *)
(***************************************************************************)
\* C8: check_target returns a boolean for every entity, whether Description
\* is registered or not: True exactly when the entity carries data for the
\* description component.
C8_CheckTargetTotal ==
    checkLast.result # None =>
        /\ checkLast.result \in {PyTrue, PyFalse}
        /\ (checkLast.result = PyTrue <=>
              registered_as(checkLast.own, "Description") \in DOMAIN checkLast.entity)

\* the print and the follow-up commands the action has triggered so far
Prints     == SelectSeq(events, LAMBDA e : e.kind = "print")
Followed   == SelectSeq(events, LAMBDA e : e.kind = "command")
Supplied   == [k \in 1..Len(look.commands) |-> Triggered(look.commands[k])]

\* C9: executing a LookAction on a target that carries a description emits
\* one message with the target's view name and description text before any
\* follow-up command, then triggers the supplied commands once each, in the
\* order of the list.
C9_MessageThenCommands ==
    /\ look.pc = "new" => events = <<>>
    /\ look.pc \in {"Base.execute", "done"} =>
          /\ look.used \in DOMAIN look.target
          /\ events # <<>>
          /\ events[1] = Message(look.target[look.used])
          /\ Len(Prints) = 1
          /\ Followed = SubSeq(Supplied, 1, look.i - 1)
    /\ look.pc = "done" => Tail(events) = Supplied
    /\ (look.pc = "new" /\ stack = <<>>
        /\ registered_as(own, "Description") \in DOMAIN look.target) =>
          LookAction_execute(own, look, events).look.pc = "Base.execute"

\* an execution with two different follow-up commands has finished
C9_Witness ==
    /\ look.pc = "done"
    /\ Len(look.commands) = 2
    /\ look.commands[1] # look.commands[2]
    /\ Len(events) = 3

(***************************************************************************)
(* Properties of the mouse listener (specification SceneSpec)              *)
(***************************************************************************)
\* the latest event met outlining switched on, a controller and a map
Handled ==
    /\ lastEvent.is_outlined
    /\ lastEvent.gamecontroller # None
    /\ lastEvent.current_map # None

\* C10: after a mouseMoved event that met outlining switched on, a bound
\* controller and a current map, the outlined instances are exactly the
\* instances at the event's point on the "actors" layer whose identifier is
\* not in the ignore list; after any other event they are what they were
\* before it.
C10_OutlinesFollowLastEvent ==
    lastEvent.point # None =>
        IF Handled
        THEN outlined = {instance \in get_instances_at(lastEvent.point, "actors") :
                            getId(instance) \notin outline_ignore}
        ELSE outlined = lastEvent.before

\* a handled event replaced earlier outlines and skipped an ignored instance
C10_Witness ==
    /\ lastEvent.point # None
    /\ Handled
    /\ lastEvent.before # {}
    /\ lastEvent.before \cap outlined = {}
    /\ outlined # {}
    /\ \E instance \in get_instances_at(lastEvent.point, "actors") :
          getId(instance) \in outline_ignore

====
